---- MODULE Spec2Model ----
(***************************************************************************)
(* The per-tick engine of antSim.py: Ant.steer, Ant.move,                  *)
(* WorkerAnt.update, SoldierAnt.update, Food.take_chunk, Pheromone.update  *)
(* and the order in which the game loop calls them.                        *)
(*                                                                         *)
(* Numbers.  The program computes positions and headings in floating       *)
(* point.  Here a position is an integer number of 1/Scale pixels and a    *)
(* heading an integer number of degrees; math.cos/math.sin are a table of  *)
(* sines in units of 1e-5 and math.atan2 is rounded to a whole degree.     *)
(* Rectangles (pygame.Rect) hold integers in the program as well: a float  *)
(* assigned to rect.center is truncated.  The random draws                 *)
(* (random.uniform) are taken from the small sets WanderSet, DeflectSet.   *)
(***************************************************************************)
EXTENDS Integers, Sequences, FiniteSets, TLC

(* ------------------------------ constants ------------------------------ *)
SCREEN_WIDTH == 800
SCREEN_HEIGHT == 600
\* sub-pixel units per pixel (46 is the largest for which a squared
\* distance across the arena stays below 2^31)
Scale == 40
\* ANT_SPEED = 1.5 pixels per tick, in 1/Scale pixels
ANT_SPEED == (3 * Scale) \div 2
ANT_TURN_SPEED == 5
TOTAL_ANTS == 40
\* WORKER_RATIO = 0.8, in hundredths
WORKER_RATIO == 80
FOOD_PILES == 12
FOOD_AMOUNT_PER_PILE == 80
PHEROMONE_STRENGTH == 255
PHEROMONE_DROP_RATE == 10
STATE_SEEKING_FOOD == 0
STATE_RETURNING_TO_NEST == 1
STATE_WANDERING == 2
\* "if dist < 50" and "if dist < 100" of WorkerAnt.update
SMELL_RADIUS == 50
SIGHT_RADIUS == 100

(* -------------------------------- bounds ------------------------------- *)
\* ticks of the game loop explored from a snapshot (Spec)
MaxTicks == 4
\* ticks explored of the runs on a pile at the nest (SpecForage)
MaxForageTicks == 260
\* ticks explored of the runs towards a pile 40 pixels away (SpecReach)
MaxReachTicks == 85
\* ticks within which the pile 40 pixels away is reached
ReachBound == 70
\* ticks explored of the runs main() starts from a configuration (SpecConfig)
MaxConfigTicks == 2
\* ticks explored of the long ways home (SpecTrail)
MaxTrailTicks == 270

(* ------------------------------ rectangles ----------------------------- *)
Rect(l, t, w, h) == [l |-> l, t |-> t, w |-> w, h |-> h]

\* pygame.Rect.colliderect: the interiors overlap
CollideRect(a, b) ==
    /\ a.l < b.l + b.w
    /\ b.l < a.l + a.w
    /\ a.t < b.t + b.h
    /\ b.t < a.t + a.h

\* main(): nest_rect = Rect(SCREEN_WIDTH // 2 - 20, SCREEN_HEIGHT // 2 - 20, 40, 40)
NestRect == Rect(SCREEN_WIDTH \div 2 - 20, SCREEN_HEIGHT \div 2 - 20, 40, 40)

\* nest_rect.center
NestCenter == [x |-> NestRect.l + NestRect.w \div 2, y |-> NestRect.t + NestRect.h \div 2]

\* main(): obs1..obs4
Obstacles ==
    << Rect(100, 150, 20, 300), Rect(600, 150, 20, 300),
       Rect(300, 100, 200, 20), Rect(300, 480, 200, 20) >>

\* the pixel a sub-pixel coordinate lies in: rect.center = (self.x, self.y)
\* truncates, and coordinates of an ant are positive when a rect is read
Px(v) == v \div Scale

\* (mutant) the ant's rect shrunk to the pixel it stands on
AntRectPoint(x, y) == Rect(Px(x), Px(y), 1, 1)

\* Ant.__init__: a 5x5 surface, rect centred on (x, y)
AntRect(x, y) == Rect(Px(x) - 2, Px(y) - 2, 5, 5)

\* Food.__init__: a 12x12 surface centred on the pile
FoodRect(f) == Rect(f.cx - 6, f.cy - 6, 12, 12)

(* ----------------------------- trigonometry ---------------------------- *)
\* sin(d degrees) * 1e5, d = 0..90 (entry d + 1)
SinTab ==
 << 0, 1745, 3490, 5234, 6976, 8716, 10453, 12187, 13917, 15643,
    17365, 19081, 20791, 22495, 24192, 25882, 27564, 29237, 30902, 32557,
    34202, 35837, 37461, 39073, 40674, 42262, 43837, 45399, 46947, 48481,
    50000, 51504, 52992, 54464, 55919, 57358, 58779, 60182, 61566, 62932,
    64279, 65606, 66913, 68200, 69466, 70711, 71934, 73135, 74314, 75471,
    76604, 77715, 78801, 79864, 80902, 81915, 82904, 83867, 84805, 85717,
    86603, 87462, 88295, 89101, 89879, 90631, 91355, 92050, 92718, 93358,
    93969, 94552, 95106, 95630, 96126, 96593, 97030, 97437, 97815, 98163,
    98481, 98769, 99027, 99255, 99452, 99619, 99756, 99863, 99939, 99985,
    100000 >>

\* math.sin(math.radians(a)) * 1e5, any integer a
Sin(a) ==
    LET m == a % 360
    IN  IF m <= 90 THEN SinTab[m + 1]
        ELSE IF m <= 180 THEN SinTab[180 - m + 1]
        ELSE IF m <= 270 THEN 0 - SinTab[m - 180 + 1]
        ELSE 0 - SinTab[360 - m + 1]

\* math.cos(math.radians(a)) * 1e5
Cos(a) == Sin(a + 90)

Abs(v) == IF v < 0 THEN 0 - v ELSE v

\* math.cos(rad) * self.speed, rounded to the nearest 1/Scale pixel
Advance(c) ==
    LET m == (Abs(c) * ANT_SPEED + 50000) \div 100000
    IN  IF c < 0 THEN 0 - m ELSE m

\* whether, for a direction (ax, ay) in the first quadrant, the heading k
\* degrees is closer to it than the heading k - 1: so exactly when the
\* angle of (ax, ay) exceeds k - 1/2
Closer(ax, ay, k) ==
    ax * Cos(k) + ay * Sin(k) > ax * Cos(k - 1) + ay * Sin(k - 1)

RECURSIVE Nearest(_, _, _, _)
\* the greatest k in lo..hi with Closer(ax, ay, k), lo if there is none:
\* the angle of (ax, ay) to the nearest degree, found by bisection
Nearest(ax, ay, lo, hi) ==
    IF lo = hi THEN lo
    ELSE LET mid == (lo + hi + 1) \div 2
         IN  IF Closer(ax, ay, mid) THEN Nearest(ax, ay, mid, hi)
             ELSE Nearest(ax, ay, lo, mid - 1)

\* get_angle_to: math.degrees(math.atan2(dy, dx)), to the nearest degree,
\* in -180..180; atan2(0, 0) is 0
AngleTo(p1, p2) ==
    LET dx == p2.x - p1.x
        dy == p2.y - p1.y
    IN  IF dx = 0 /\ dy = 0 THEN 0
        ELSE IF dx >= 0 /\ dy >= 0 THEN Nearest(dx, dy, 0, 90)
        ELSE IF dx < 0 /\ dy >= 0 THEN 180 - Nearest(0 - dx, dy, 0, 90)
        ELSE IF dx < 0 THEN Nearest(0 - dx, 0 - dy, 0, 90) - 180
        ELSE 0 - Nearest(dx, 0 - dy, 0, 90)

\* squared distance, in 1/Scale pixels, from rect centre (cx, cy) to (x, y):
\* math.hypot(p.rect.centerx - self.x, p.rect.centery - self.y) squared
Dist2(cx, cy, x, y) ==
    (cx * Scale - x) * (cx * Scale - x) + (cy * Scale - y) * (cy * Scale - y)

Within(cx, cy, x, y, radius) ==
    Dist2(cx, cy, x, y) < (radius * Scale) * (radius * Scale)

(* -------------------------------- steer -------------------------------- *)
\* (mutant) steer taking target - cur as it is for the turn, without
\* folding it into [-180, 180)
SteerUnfolded(cur, target, maxTurn) ==
    LET diff == target - cur
        d    == IF Abs(diff) < maxTurn THEN target
                ELSE IF diff > 0 THEN cur + maxTurn
                ELSE cur - maxTurn
    IN  d % 360

\* Ant.steer with self.direction = cur, self.turn_speed = maxTurn
Steer(cur, target, maxTurn) ==
    LET diff == ((target - cur + 180) % 360) - 180
        d    == IF Abs(diff) < maxTurn THEN target
                ELSE IF diff > 0 THEN cur + maxTurn
                ELSE cur - maxTurn
    IN  d % 360

(* ----------------------------- random draws ---------------------------- *)
\* random.uniform(-self.turn_speed, self.turn_speed): whole degrees drawn
WanderSet == {0 - ANT_TURN_SPEED, 0, ANT_TURN_SPEED}

\* random.uniform(90, 270) = 90 + 180 * random(), random() in [0, 1)
DeflectSet == {90, 180, 269}

(* --------------------------------- move -------------------------------- *)
\* "if self.x <= 0 or self.x >= SCREEN_WIDTH"
OutX(x) == x <= 0 \/ x >= SCREEN_WIDTH * Scale

\* "if self.y <= 0 or self.y >= SCREEN_HEIGHT"
OutY(y) == y <= 0 \/ y >= SCREEN_HEIGHT * Scale

\* pygame.sprite.spritecollide(self, obstacle_group, False) is not empty
HitsObstacle(x, y) ==
    \E i \in 1..Len(Obstacles) : CollideRect(AntRect(x, y), Obstacles[i])

\* (mutant) the bounce on x forgets "self.x = old_x"
KeepXMoved(oldx, newx) == newx

\* the x kept after the boundary check: "self.x = old_x" on a bounce
KeepX(oldx, newx) == IF OutX(newx) THEN oldx ELSE newx

\* the y kept after the boundary check: "self.y = old_y" on a bounce
KeepY(oldy, newy) == IF OutY(newy) THEN oldy ELSE newy

\* (mutant) the two reflections exchanged
ReflectSwapped(dir, newx, newy) ==
    LET d1 == IF OutX(newx) THEN 0 - dir ELSE dir
    IN  IF OutY(newy) THEN 180 - d1 ELSE d1

\* the heading after the boundary check
Reflect(dir, newx, newy) ==
    LET d1 == IF OutX(newx) THEN 180 - dir ELSE dir
    IN  IF OutY(newy) THEN 0 - d1 ELSE d1

\* (mutant) move that turns at an obstacle but stays where it moved to
MoveNoRevert(x, y, dir, r) ==
    LET nx  == x + Advance(Cos(dir))
        ny  == y + Advance(Sin(dir))
        x1  == KeepX(x, nx)
        y1  == KeepY(y, ny)
        d1  == Reflect(dir, nx, ny)
        hit == HitsObstacle(x1, y1)
    IN  [ x   |-> x1, y |-> y1,
          dir |-> IF hit THEN d1 + r ELSE d1,
          mx  |-> nx, my |-> ny,
          bx  |-> OutX(nx), by |-> OutY(ny), hit |-> hit ]

\* Ant.move from position (x, y) with heading dir; r is the random
\* deflection drawn if an obstacle is hit.  mx, my, bx, by, hit record
\* what happened on the way.
Move(x, y, dir, r) ==
    LET nx  == x + Advance(Cos(dir))
        ny  == y + Advance(Sin(dir))
        x1  == KeepX(x, nx)
        y1  == KeepY(y, ny)
        d1  == Reflect(dir, nx, ny)
        hit == HitsObstacle(x1, y1)
    IN  [ x   |-> IF hit THEN x ELSE x1,
          y   |-> IF hit THEN y ELSE y1,
          dir |-> IF hit THEN d1 + r ELSE d1,
          mx  |-> nx, my |-> ny,
          bx  |-> OutX(nx), by |-> OutY(ny), hit |-> hit ]

(* --------------------------------- food -------------------------------- *)
\* (mutant) the pile killed one chunk late
SpentLate(amount) == amount < 0

\* Food.take_chunk: "if self.amount <= 0: self.kill()"
Spent(amount) == amount <= 0

RemoveAt(s, k) == [i \in 1..(Len(s) - 1) |-> IF i < k THEN s[i] ELSE s[i + 1]]

\* (mutant) take_chunk taking two chunks at a time
TakeChunkDouble(fg, k) ==
    LET f == [fg[k] EXCEPT !.amount = @ - 2]
    IN  IF Spent(f.amount) THEN RemoveAt(fg, k) ELSE [fg EXCEPT ![k] = f]

\* Food.take_chunk on the k-th pile of food_group
TakeChunk(fg, k) ==
    LET f == [fg[k] EXCEPT !.amount = @ - 1]
    IN  IF Spent(f.amount) THEN RemoveAt(fg, k) ELSE [fg EXCEPT ![k] = f]

\* pygame.sprite.spritecollide(self, food_group, False): the piles whose
\* rect overlaps the ant's, by position in the group
CollidedFood(x, y, fg) ==
    {k \in 1..Len(fg) : CollideRect(AntRect(x, y), FoodRect(fg[k]))}

Min(S) == CHOOSE m \in S : \A n \in S : m <= n

\* min(food_group, key = distance): the first pile at the least distance
ClosestFood(x, y, fg) ==
    Min({k \in 1..Len(fg) :
            \A j \in 1..Len(fg) :
                Dist2(fg[k].cx, fg[k].cy, x, y) <= Dist2(fg[j].cx, fg[j].cy, x, y)})

(* ------------------------------ pheromones ----------------------------- *)
\* (mutant) the marker killed one tick late
FadedLate(strength) == strength < 0

\* Pheromone.update: "if self.strength <= 0: self.kill()"
Faded(strength) == strength <= 0

\* Pheromone.__init__ at the worker's position; age, by and born are
\* history: decays undergone, the depositing ant, the tick of the deposit
NewPheromone(x, y, i, t) ==
    [ cx |-> Px(x), cy |-> Px(y), strength |-> PHEROMONE_STRENGTH,
      age |-> 0, by |-> i, born |-> t ]

\* (mutant) the fading as it would be were pheromone_group.update() to run
\* before ant_group.update(): a marker misses the fading of the tick it is
\* deposited in
FadeBeforeAnts(p) ==
    IF p.age = 0 THEN [p EXCEPT !.age = 1]
    ELSE [p EXCEPT !.strength = @ - 1, !.age = @ + 1]

\* one Pheromone.update
Fade(p) == [p EXCEPT !.strength = @ - 1, !.age = @ + 1]

RECURSIVE Survivors(_)
\* pheromone_group after pheromone_group.update(): every marker faded
\* once, those that reached zero killed, the order of the rest kept
Survivors(pg) ==
    IF pg = << >> THEN << >>
    ELSE LET p == Fade(Head(pg))
         IN  IF Faded(p.strength) THEN Survivors(Tail(pg))
             ELSE << p >> \o Survivors(Tail(pg))

\* (mutant) smelling only the markers that have faded at least once: those
\* deposited in the tick under way are not smelled yet
FirstSmelledSettled(x, y, pg) ==
    LET near == {k \in 1..Len(pg) :
                    /\ pg[k].strength < PHEROMONE_STRENGTH
                    /\ Within(pg[k].cx, pg[k].cy, x, y, SMELL_RADIUS)}
    IN  IF near = {} THEN 0 ELSE Min(near)

\* (mutant) smelling the nearest marker within smelling distance
FirstSmelledNearest(x, y, pg) ==
    LET near == {k \in 1..Len(pg) : Within(pg[k].cx, pg[k].cy, x, y, SMELL_RADIUS)}
    IN  IF near = {} THEN 0
        ELSE Min({k \in near :
                    \A j \in near :
                        Dist2(pg[k].cx, pg[k].cy, x, y) <= Dist2(pg[j].cx, pg[j].cy, x, y)})

\* "for p in pheromone_group: if dist < 50: ... break": the first marker
\* in the group's order within smelling distance, 0 if none
FirstSmelled(x, y, pg) ==
    LET near == {k \in 1..Len(pg) : Within(pg[k].cx, pg[k].cy, x, y, SMELL_RADIUS)}
    IN  IF near = {} THEN 0 ELSE Min(near)

\* (mutant) a deposit one call early
MayDropEarly(cd) == cd <= 1

\* WorkerAnt.drop_pheromone: "if self.pheromone_cooldown <= 0"
MayDrop(cd) == cd <= 0

\* (mutant) drop_pheromone that forgets to set the cooldown again
NextCooldownNoReset(cd) == cd - 1

\* the cooldown after WorkerAnt.drop_pheromone
NextCooldown(cd) == IF MayDrop(cd) THEN PHEROMONE_DROP_RATE ELSE cd - 1

(* -------------------------------- state -------------------------------- *)
VARIABLES
    ants,   \* ant_group, in insertion order: role, x, y, dir(ection), state,
            \* cd (pheromone_cooldown); since is history (see WorkerStep)
    food,   \* food_group, in insertion order: id, cx, cy, amount
    pher,   \* pheromone_group, in insertion order
    idx,    \* position of ant_group.update(): the next ant to update;
            \* Len(ants) + 1 when pheromone_group.update() is next
    tick,   \* iterations of the game loop completed
    takes,  \* history: take_chunk calls so far, by pile id
    gone,   \* history: the tick in which each pile was killed, -1 if none
    faded,  \* history: the ages at which pheromones were killed
    last,   \* history: what the most recent ant update did
    probe,  \* one call of Ant.steer on its own (SpecSteer): cur, target,
            \* turn and, once done, out
    pickups,\* history: SEEKING_FOOD -> RETURNING_TO_NEST transitions so far
    config, \* the simulation parameters main() runs with: TOTAL_ANTS,
            \* WORKER_RATIO (hundredths), FOOD_PILES, FOOD_AMOUNT_PER_PILE
    pc      \* where main() is: "main" before the populations are created,
            \* "loop" in the game loop

vars == << ants, food, pher, idx, tick, takes, gone, faded, last, probe,
           pickups, config, pc >>

\* WorkerAnt.__init__ / Ant.__init__ at pixel (px, py)
Worker(px, py, dir, state, cd) ==
    [ role |-> "worker", x |-> px * Scale, y |-> py * Scale, dir |-> dir,
      state |-> state, cd |-> cd, since |-> 0 - 1 ]

\* SoldierAnt.__init__ / Ant.__init__ at pixel (px, py)
Soldier(px, py, dir) ==
    [ role |-> "soldier", x |-> px * Scale, y |-> py * Scale, dir |-> dir,
      state |-> STATE_WANDERING, cd |-> 0, since |-> 0 - 1 ]

\* an ant dx, dy sub-pixel units further: positions are not whole pixels
\* once an ant has moved
Shifted(a, dx, dy) == [a EXCEPT !.x = @ + dx, !.y = @ + dy]

\* Food.__init__ with what has been taken from the pile so far
Pile(id, cx, cy, taken) ==
    [ id |-> id, cx |-> cx, cy |-> cy, amount |-> FOOD_AMOUNT_PER_PILE - taken ]

\* a marker that has been in the field for age ticks
Marker(cx, cy, age) ==
    [ cx |-> cx, cy |-> cy, strength |-> PHEROMONE_STRENGTH - age,
      age |-> age, by |-> 0, born |-> 0 - age ]

NoProbe == [cur |-> 0, target |-> 0, turn |-> 0, out |-> 0, done |-> FALSE]

NoLast ==
    [ ant |-> 0, role |-> "none", state0 |-> 0, dir0 |-> 0, x0 |-> 0, y0 |-> 0,
      cd0 |-> 0,
      tsrc |-> "none", tx |-> 0, ty |-> 0, tstr |-> 0, tang |-> 0,
      tby |-> 0, tborn |-> 0, tpile |-> 0,
      took |-> 0, emptied |-> FALSE, dep |-> FALSE, gap |-> 0, nest |-> FALSE,
      mdir |-> 0, mx |-> 0, my |-> 0, bx |-> FALSE, by |-> FALSE, hit |-> FALSE ]

(* ------------------------------ ant updates ---------------------------- *)
\* (mutant) a worker that stays SEEKING_FOOD when it has picked up food
NextStateNoPickup(state, take, nest) ==
    IF nest THEN STATE_SEEKING_FOOD ELSE state

\* the state a worker leaves its update in: "self.state =
\* STATE_RETURNING_TO_NEST" on a food collision, "self.state =
\* STATE_SEEKING_FOOD" on a nest collision
NextState(state, take, nest) ==
    IF take THEN STATE_RETURNING_TO_NEST
    ELSE IF nest THEN STATE_SEEKING_FOOD
    ELSE state

\* (mutant) WorkerAnt.update with the food collision checked before the
\* sensing: a worker that picks up food is RETURNING_TO_NEST for the rest
\* of the update (nest as target, drop_pheromone, nest check)
WorkerStepCollideFirst(a, i, fg, pg, t, w, r) ==
    LET seeking   == a.state = STATE_SEEKING_FOOD
        col   == IF seeking THEN CollidedFood(a.x, a.y, fg) ELSE {}
        take  == col # {}
        returning == a.state = STATE_RETURNING_TO_NEST \/ take
        si    == IF seeking /\ ~take THEN FirstSmelled(a.x, a.y, pg) ELSE 0
        cf    == IF seeking /\ ~take /\ si = 0 /\ Len(fg) > 0
                 THEN ClosestFood(a.x, a.y, fg) ELSE 0
        sees  == cf # 0 /\ Within(fg[cf].cx, fg[cf].cy, a.x, a.y, SIGHT_RADIUS)
        k     == IF take THEN Min(col) ELSE 0
        drop  == returning /\ MayDrop(a.cd)
        nest  == returning /\ CollideRect(AntRect(a.x, a.y), NestRect)
        tsrc  == IF returning THEN "nest"
                 ELSE IF si # 0 THEN "pheromone"
                 ELSE IF sees THEN "food"
                 ELSE "none"
        tpos  == IF returning THEN NestCenter
                 ELSE IF si # 0 THEN [x |-> pg[si].cx, y |-> pg[si].cy]
                 ELSE IF sees THEN [x |-> fg[cf].cx, y |-> fg[cf].cy]
                 ELSE [x |-> 0, y |-> 0]
        tang  == IF tsrc = "none" THEN 0
                 ELSE AngleTo([x |-> Px(a.x), y |-> Px(a.y)], tpos)
        dirA  == IF nest THEN a.dir + 180 ELSE a.dir
        dirB  == IF tsrc = "none" THEN dirA + w
                 ELSE Steer(dirA, tang, ANT_TURN_SPEED)
        m     == Move(a.x, a.y, dirB, r)
        st    == NextState(a.state, take, nest)
    IN  [ ant  |-> [ a EXCEPT !.x = m.x, !.y = m.y, !.dir = m.dir, !.state = st,
                       !.cd = IF returning THEN NextCooldown(a.cd) ELSE a.cd,
                       !.since = IF ~returning \/ nest THEN 0 - 1
                                 ELSE IF drop THEN 0
                                 ELSE IF a.since >= 0 THEN a.since + 1
                                 ELSE 0 - 1 ],
          food |-> IF take THEN TakeChunk(fg, k) ELSE fg,
          pher |-> IF drop THEN Append(pg, NewPheromone(a.x, a.y, i, t)) ELSE pg,
          last |-> [ ant |-> i, role |-> a.role, state0 |-> a.state, dir0 |-> a.dir,
                     x0 |-> a.x, y0 |-> a.y, cd0 |-> a.cd,
                     tsrc |-> tsrc, tx |-> tpos.x, ty |-> tpos.y,
                     tstr |-> IF si # 0 THEN pg[si].strength ELSE 0,
                     tang |-> tang,
                     tby |-> IF si # 0 THEN pg[si].by ELSE 0,
                     tborn |-> IF si # 0 THEN pg[si].born ELSE 0,
                     tpile |-> IF tsrc = "food" THEN fg[cf].id ELSE 0,
                     took |-> IF take THEN fg[k].id ELSE 0,
                     emptied |-> take /\ Len(TakeChunk(fg, k)) < Len(fg),
                     dep |-> drop,
                     gap |-> IF drop /\ a.since >= 0 THEN a.since + 1 ELSE 0,
                     nest |-> nest,
                     mdir |-> dirB, mx |-> m.mx, my |-> m.my,
                     bx |-> m.bx, by |-> m.by, hit |-> m.hit ] ]

\* WorkerAnt.update of ant a, the i-th of ant_group, in tick t, with food
\* group fg and pheromone group pg; w and r are the random draws of the
\* wander and of Ant.move.  The result holds the ant, the two groups and
\* the record of what happened (last).
\*   since: drop_pheromone calls since this worker's latest deposit while
\*          it has stayed in RETURNING_TO_NEST, -1 before the first
\*   gap:   on a deposit, since + 1 (0 for the first of the stretch)
\*   tby, tborn: who deposited the marker taken as target, and in which tick
\*   tpile: the id of the pile taken as target; emptied: take_chunk killed
\*          the pile
WorkerStep(a, i, fg, pg, t, w, r) ==
    LET seeking   == a.state = STATE_SEEKING_FOOD
        returning == a.state = STATE_RETURNING_TO_NEST
        si    == IF seeking THEN FirstSmelled(a.x, a.y, pg) ELSE 0
        cf    == IF seeking /\ si = 0 /\ Len(fg) > 0
                 THEN ClosestFood(a.x, a.y, fg) ELSE 0
        sees  == cf # 0 /\ Within(fg[cf].cx, fg[cf].cy, a.x, a.y, SIGHT_RADIUS)
        col   == IF seeking THEN CollidedFood(a.x, a.y, fg) ELSE {}
        take  == col # {}
        k     == IF take THEN Min(col) ELSE 0
        drop  == returning /\ MayDrop(a.cd)
        nest  == returning /\ CollideRect(AntRect(a.x, a.y), NestRect)
        tsrc  == IF returning THEN "nest"
                 ELSE IF si # 0 THEN "pheromone"
                 ELSE IF sees THEN "food"
                 ELSE "none"
        tpos  == IF returning THEN NestCenter
                 ELSE IF si # 0 THEN [x |-> pg[si].cx, y |-> pg[si].cy]
                 ELSE IF sees THEN [x |-> fg[cf].cx, y |-> fg[cf].cy]
                 ELSE [x |-> 0, y |-> 0]
        tang  == IF tsrc = "none" THEN 0
                 ELSE AngleTo([x |-> Px(a.x), y |-> Px(a.y)], tpos)
        dirA  == IF nest THEN a.dir + 180 ELSE a.dir
        dirB  == IF tsrc = "none" THEN dirA + w
                 ELSE Steer(dirA, tang, ANT_TURN_SPEED)
        m     == Move(a.x, a.y, dirB, r)
        st    == NextState(a.state, take, nest)
    IN  [ ant  |-> [ a EXCEPT !.x = m.x, !.y = m.y, !.dir = m.dir, !.state = st,
                       !.cd = IF returning THEN NextCooldown(a.cd) ELSE a.cd,
                       !.since = IF ~returning \/ nest THEN 0 - 1
                                 ELSE IF drop THEN 0
                                 ELSE IF a.since >= 0 THEN a.since + 1
                                 ELSE 0 - 1 ],
          food |-> IF take THEN TakeChunk(fg, k) ELSE fg,
          pher |-> IF drop THEN Append(pg, NewPheromone(a.x, a.y, i, t)) ELSE pg,
          last |-> [ ant |-> i, role |-> a.role, state0 |-> a.state, dir0 |-> a.dir,
                     x0 |-> a.x, y0 |-> a.y, cd0 |-> a.cd,
                     tsrc |-> tsrc, tx |-> tpos.x, ty |-> tpos.y,
                     tstr |-> IF si # 0 THEN pg[si].strength ELSE 0,
                     tang |-> tang,
                     tby |-> IF si # 0 THEN pg[si].by ELSE 0,
                     tborn |-> IF si # 0 THEN pg[si].born ELSE 0,
                     tpile |-> IF tsrc = "food" THEN fg[cf].id ELSE 0,
                     took |-> IF take THEN fg[k].id ELSE 0,
                     emptied |-> take /\ Len(TakeChunk(fg, k)) < Len(fg),
                     dep |-> drop,
                     gap |-> IF drop /\ a.since >= 0 THEN a.since + 1 ELSE 0,
                     nest |-> nest,
                     mdir |-> dirB, mx |-> m.mx, my |-> m.my,
                     bx |-> m.bx, by |-> m.by, hit |-> m.hit ] ]

\* SoldierAnt.update of ant a, the i-th of ant_group
SoldierStep(a, i, w, r) ==
    LET dirB == a.dir + w
        m    == Move(a.x, a.y, dirB, r)
    IN  [ ant  |-> [a EXCEPT !.x = m.x, !.y = m.y, !.dir = m.dir],
          last |-> [ NoLast EXCEPT !.ant = i, !.role = a.role, !.state0 = a.state,
                     !.dir0 = a.dir, !.x0 = a.x, !.y0 = a.y, !.cd0 = a.cd,
                     !.mdir = dirB, !.mx = m.mx, !.my = m.my,
                     !.bx = m.bx, !.by = m.by, !.hit = m.hit ] ]

(* -------------------------------- actions ------------------------------ *)
\* ant_group.update(...) reaches a worker: WorkerAnt.update
WorkerUpdate(horizon) ==
    /\ tick < horizon
    /\ idx <= Len(ants)
    /\ ants[idx].role = "worker"
    /\ \E w \in WanderSet, r \in DeflectSet :
          \E s \in {WorkerStep(ants[idx], idx, food, pher, tick, w, r)} :
              /\ ants' = [ants EXCEPT ![idx] = s.ant]
              /\ food' = s.food
              /\ pher' = s.pher
              /\ last' = s.last
              /\ takes' = IF s.last.took = 0 THEN takes
                          ELSE [takes EXCEPT ![s.last.took] = @ + 1]
              /\ gone' = IF s.last.took # 0 /\ Len(s.food) < Len(food)
                         THEN [gone EXCEPT ![s.last.took] = tick]
                         ELSE gone
              /\ pickups' = IF ants[idx].state = STATE_SEEKING_FOOD
                                /\ s.ant.state = STATE_RETURNING_TO_NEST
                             THEN pickups + 1 ELSE pickups
    /\ idx' = idx + 1
    /\ UNCHANGED << tick, faded, probe, config, pc >>

\* (mutant) a soldier updated by WorkerAnt.update, as a worker that seeks
\* food
SoldierUpdateForaging(horizon) ==
    /\ tick < horizon
    /\ idx <= Len(ants)
    /\ ants[idx].role = "soldier"
    /\ \E w \in WanderSet, r \in DeflectSet :
          \E s \in {WorkerStep([ants[idx] EXCEPT !.state = STATE_SEEKING_FOOD],
                                idx, food, pher, tick, w, r)} :
              /\ ants' = [ants EXCEPT ![idx] = s.ant]
              /\ food' = s.food
              /\ pher' = s.pher
              /\ last' = [s.last EXCEPT !.role = "soldier"]
    /\ idx' = idx + 1
    /\ UNCHANGED << tick, takes, gone, faded, probe, pickups, config, pc >>

\* ant_group.update(...) reaches a soldier: SoldierAnt.update
SoldierUpdate(horizon) ==
    /\ tick < horizon
    /\ idx <= Len(ants)
    /\ ants[idx].role = "soldier"
    /\ \E w \in WanderSet, r \in DeflectSet :
          \E s \in {SoldierStep(ants[idx], idx, w, r)} :
              /\ ants' = [ants EXCEPT ![idx] = s.ant]
              /\ last' = s.last
    /\ idx' = idx + 1
    /\ UNCHANGED << food, pher, tick, takes, gone, faded, probe, pickups, config, pc >>

\* pheromone_group.update(), after every ant of the tick; the loop then
\* draws and starts over
PheromoneUpdate ==
    /\ idx = Len(ants) + 1
    /\ pher' = Survivors(pher)
    /\ faded' = faded \cup
                  {Fade(pher[k]).age : k \in {j \in 1..Len(pher) : Faded(Fade(pher[j]).strength)}}
    /\ idx' = 1
    /\ tick' = tick + 1
    /\ UNCHANGED << ants, food, takes, gone, last, probe, pickups, config, pc >>

(* ----------------------------- initial states -------------------------- *)
\* the simulation parameters as the program sets them
DefaultConfig ==
    [ TOTAL_ANTS |-> TOTAL_ANTS, WORKER_RATIO |-> WORKER_RATIO,
      FOOD_PILES |-> FOOD_PILES, FOOD_AMOUNT_PER_PILE |-> FOOD_AMOUNT_PER_PILE ]

RECURSIVE TotalAmount(_)
\* the chunks left in the piles of a food group
TotalAmount(fg) ==
    IF fg = << >> THEN 0 ELSE Head(fg).amount + TotalAmount(Tail(fg))

Snapshot(a, f, p) == [ants |-> a, food |-> f, pher |-> p]

\* main() as it enters the game loop: ants within 10 pixels of the nest
\* centre, workers SEEKING_FOOD with cooldown 0, full piles, no pheromone
\* (three of the ants and the two piles nearest to them)
AtStart ==
    { Snapshot(<< Worker(400, 300, h, STATE_SEEKING_FOOD, 0),
                  Worker(392, 308, 250, STATE_SEEKING_FOOD, 0),
                  Soldier(409, 291, 2) >>,
               << Pile(1, 430, 300, 0), Pile(2, 700, 500, 0) >>,
               << >>) : h \in {0, 135, 357} }

\* later in a run: ants that have wandered next to the arena's walls
AtWalls ==
    { Snapshot(<< Soldier(1, 300, 180), Worker(799, 1, 315, STATE_SEEKING_FOOD, 4) >>,
               << Pile(1, 400, 300, 0) >>, << >>),
      Snapshot(<< Soldier(400, 599, 90), Shifted(Soldier(798, 300, 0), Scale \div 2, 0) >>,
               << Pile(1, 400, 300, 0) >>, << >>),
      Snapshot(<< Worker(2, 598, 135, STATE_SEEKING_FOOD, 0), Soldier(300, 1, 270) >>,
               << Pile(1, 400, 300, 0) >>, << >>) }

\* later in a run: ants next to an obstacle
AtObstacles ==
    { Snapshot(<< Soldier(97, 300, 0),
                  Worker(400, 97, 90, STATE_RETURNING_TO_NEST, 0) >>,
               << Pile(1, 400, 60, 3) >>, << >>),
      Snapshot(<< Soldier(623, 200, 170),
                  Worker(450, 477, 85, STATE_SEEKING_FOOD, 2) >>,
               << Pile(1, 700, 100, 0) >>, << >>) }

\* later in a run: workers carrying food home
AtNest ==
    { Snapshot(<< Worker(376, 300, 0, STATE_RETURNING_TO_NEST, cd),
                  Worker(405, 310, 200, STATE_RETURNING_TO_NEST, 0),
                  Soldier(395, 295, 359) >>,
               << Pile(1, 200, 300, 7) >>,
               << Marker(350, 300, 30) >>) : cd \in {0, 3} }

\* later in a run: seeking workers near pheromones and piles
AtFood ==
    { Snapshot(<< Worker(200, 200, 0, STATE_SEEKING_FOOD, 0),
                  Worker(540, 310, 90, STATE_SEEKING_FOOD, 6),
                  Worker(205, 207, 45, STATE_SEEKING_FOOD, 0) >>,
               << Pile(1, 210, 210, 79), Pile(2, 560, 300, 0), Pile(3, 530, 330, 40) >>,
               << Marker(240, 200, 100), Marker(205, 200, age) >>) : age \in {10, 254} }

\* later in a run: a worker on its way home next to the pile it took from,
\* a worker on the pile's last chunk (with a cooldown left from an earlier
\* trip), and seeking workers around them
AtPickup ==
    { Snapshot(<< Worker(230, 300, 180, STATE_SEEKING_FOOD, 0),
                  Worker(215, 300, 0, STATE_RETURNING_TO_NEST, 0),
                  Worker(200, 300, 90, STATE_SEEKING_FOOD, 4),
                  Worker(203, 303, 0, STATE_SEEKING_FOOD, 0),
                  Worker(150, 300, 0, STATE_SEEKING_FOOD, 0) >>,
               << Pile(1, 200, 300, 79) >>, << >>) }

\* later in a run: two piles that overlap (random.randint places them
\* anywhere), the first down to its last chunk; one worker on both piles,
\* one on the first alone
AtTwoPiles ==
    { Snapshot(<< Worker(306, 400, 0, STATE_SEEKING_FOOD, 0),
                  Worker(301, 400, 0, STATE_SEEKING_FOOD, 0) >>,
               << Pile(1, 300, 400, 79), Pile(2, 310, 400, 0) >>, << >>) }

Snapshots ==
    AtStart \cup AtWalls \cup AtObstacles \cup AtNest \cup AtFood \cup AtPickup
      \cup AtTwoPiles

InitFrom(S) ==
    \E s \in S :
        /\ ants = s.ants
        /\ food = s.food
        /\ pher = s.pher
        /\ takes = [k \in 1..Len(s.food) |-> FOOD_AMOUNT_PER_PILE - s.food[k].amount]
        /\ gone = [k \in 1..Len(s.food) |-> 0 - 1]
        /\ idx = 1
        /\ tick = 0
        /\ faded = {}
        /\ last = NoLast
        /\ pickups = Len(s.food) * FOOD_AMOUNT_PER_PILE - TotalAmount(s.food)
        /\ config = DefaultConfig
        /\ pc = "loop"

Init == InitFrom(Snapshots) /\ probe = NoProbe

Next ==
    \/ WorkerUpdate(MaxTicks)
    \/ SoldierUpdate(MaxTicks)
    \/ PheromoneUpdate

Spec == Init /\ [][Next]_vars

(* ------------------------- a pile at the nest --------------------------- *)
\* main() as it enters the game loop, a pile having been placed on the
\* nest centre (random.randint(20, SCREEN_WIDTH - 20) allows it): three
\* workers go to and fro between pile and nest until the pile is spent
OnNestPile ==
    { Snapshot(<< Worker(400, 300, 0, STATE_SEEKING_FOOD, 0),
                  Worker(405, 295, 90, STATE_SEEKING_FOOD, 0),
                  Worker(398, 302, 270, STATE_SEEKING_FOOD, 0) >>,
               << Pile(1, 400, 300, 0) >>, << >>),
      Snapshot(<< Worker(400, 300, 0, STATE_SEEKING_FOOD, 0),
                  Worker(403, 300, 120, STATE_SEEKING_FOOD, 0),
                  Worker(397, 304, 240, STATE_SEEKING_FOOD, 0) >>,
               << Pile(1, 400, 300, 0) >>, << >>) }

InitForage == InitFrom(OnNestPile) /\ probe = NoProbe

NextForage ==
    \/ WorkerUpdate(MaxForageTicks)
    \/ PheromoneUpdate

SpecForage == InitForage /\ [][NextForage]_vars

(* ------------------------ a pile 40 pixels away ------------------------- *)
\* where the worker stands relative to the pile: 40 pixels away
ReachOffsets ==
    { << 40, 0 >>, << 0 - 40, 0 >>, << 0, 40 >>, << 0, 0 - 40 >>,
      << 24, 32 >>, << 0 - 24, 32 >>, << 32, 0 - 24 >>, << 0 - 32, 0 - 24 >> }

\* where the pile is: clear of the obstacles, the walls and the nest
ReachPiles == { << 200, 300 >>, << 700, 100 >> }

\* a lone seeking worker 40 pixels from the only pile, no pheromone, any
\* of 36 headings (Ant.__init__ draws random.uniform(0, 360))
NearPile ==
    { Snapshot(<< Worker(p[1] + o[1], p[2] + o[2], h, STATE_SEEKING_FOOD, 0) >>,
               << Pile(1, p[1], p[2], 0) >>, << >>) :
        p \in ReachPiles, o \in ReachOffsets, h \in {d \in 0..359 : d % 10 = 0} }

InitReach == InitFrom(NearPile) /\ probe = NoProbe

NextReach ==
    \/ WorkerUpdate(MaxReachTicks)
    \/ PheromoneUpdate

SpecReach == InitReach /\ [][NextReach]_vars

(* ----------------------------- long ways home -------------------------- *)
\* two workers on piles in opposite corners of the arena (random.randint(20,
\* SCREEN_WIDTH - 20) allows them), more than 250 ticks from the nest, the
\* way clear of the obstacles
FarFromNest ==
    { Snapshot(<< Worker(21, 21, h, STATE_SEEKING_FOOD, 0),
                  Worker(779, 579, 90, STATE_SEEKING_FOOD, 0) >>,
               << Pile(1, 20, 20, 0), Pile(2, 780, 580, 0) >>, << >>) :
        h \in {0, 90, 180, 270} }

InitTrail == InitFrom(FarFromNest) /\ probe = NoProbe

NextTrail ==
    \/ WorkerUpdate(MaxTrailTicks)
    \/ PheromoneUpdate

SpecTrail == InitTrail /\ [][NextTrail]_vars

(* ----------------------- main() from a configuration -------------------- *)
\* values the parameters TOTAL_ANTS, WORKER_RATIO (hundredths), FOOD_PILES
\* and FOOD_AMOUNT_PER_PILE at the top of antSim.py may be set to
Configs ==
    [ TOTAL_ANTS : {0 - 1, 0, 1, 2}, WORKER_RATIO : {0 - 50, 0, 50, 100, 150},
      FOOD_PILES : {0 - 1, 0, 1}, FOOD_AMOUNT_PER_PILE : {0 - 1, 0, 1, FOOD_AMOUNT_PER_PILE} ]

\* the draws for one ant: random.randint(-10, 10) twice for the place,
\* random.random() (hundredths) for the role, random.uniform(0, 360) for
\* the heading
AntDraws ==
    [ dx : {0 - 10, 0}, dy : {0}, u : {0, 99}, dir : {0, 180} ]

\* the draws for one pile: random.randint(20, SCREEN_WIDTH - 20),
\* random.randint(20, SCREEN_HEIGHT - 20)
PileDraws == { << 400, 300 >>, << 386, 300 >> }

\* "if random.random() < WORKER_RATIO: ant = WorkerAnt(...) else: ant =
\* SoldierAnt(...)" at nest_rect.center + (dx, dy)
NewAnt(c, d) ==
    IF d.u < c.WORKER_RATIO
    THEN Worker(NestCenter.x + d.dx, NestCenter.y + d.dy, d.dir, STATE_SEEKING_FOOD, 0)
    ELSE Soldier(NestCenter.x + d.dx, NestCenter.y + d.dy, d.dir)

\* Food(x, y) with "self.amount = FOOD_AMOUNT_PER_PILE" as configured
NewFood(c, id, d) ==
    [ id |-> id, cx |-> d[1], cy |-> d[2], amount |-> c.FOOD_AMOUNT_PER_PILE ]

\* main() up to the game loop: "for i in range(TOTAL_ANTS)", "for _ in
\* range(FOOD_PILES)" (range of a number below 1 is empty); nothing in it
\* looks at what the parameters are
Main ==
    /\ pc = "main"
    /\ \E a \in [1..config.TOTAL_ANTS -> AntDraws],
          f \in [1..config.FOOD_PILES -> PileDraws] :
          /\ ants' = [i \in 1..config.TOTAL_ANTS |-> NewAnt(config, a[i])]
          /\ food' = [k \in 1..config.FOOD_PILES |-> NewFood(config, k, f[k])]
          /\ takes' = [k \in 1..config.FOOD_PILES |-> 0]
          /\ gone' = [k \in 1..config.FOOD_PILES |-> 0 - 1]
    /\ pher' = << >>
    /\ idx' = 1
    /\ tick' = 0
    /\ pc' = "loop"
    /\ UNCHANGED << faded, last, probe, pickups, config >>

InitConfig ==
    /\ config \in Configs
    /\ pc = "main"
    /\ ants = << >> /\ food = << >> /\ pher = << >>
    /\ takes = << >> /\ gone = << >>
    /\ idx = 1 /\ tick = 0 /\ faded = {} /\ pickups = 0
    /\ last = NoLast /\ probe = NoProbe

\* "while running:" with the populations main() has created
NextConfig ==
    \/ Main
    \/ WorkerUpdate(MaxConfigTicks)
    \/ SoldierUpdate(MaxConfigTicks)
    \/ (pc = "loop" /\ tick < MaxConfigTicks /\ PheromoneUpdate)

SpecConfig == InitConfig /\ [][NextConfig]_vars

(* --------------------------- Ant.steer on its own ----------------------- *)
\* target angles tried: get_angle_to yields (-180, 180]; a few beyond
ProbeTargets ==
    {t \in (0 - 180)..180 : t % 3 = 0} \cup {0 - 360, 0 - 359, 1, 179, 359, 360, 361, 540}

\* turn rates tried (ANT_TURN_SPEED among them)
ProbeTurns == {1, ANT_TURN_SPEED, 179, 180, 181}

\* the world stands still while steer is tried: one ant, nothing else
InitSteer ==
    /\ InitFrom({Snapshot(<< Worker(400, 300, 0, STATE_SEEKING_FOOD, 0) >>, << >>, << >>)})
    /\ probe \in [ cur : 0..359, target : ProbeTargets, turn : ProbeTurns,
                   out : {0}, done : {FALSE} ]

\* self.steer(target_angle) with self.direction = probe.cur
SteerProbe ==
    /\ ~probe.done
    /\ probe' = [probe EXCEPT !.out = Steer(probe.cur, probe.target, probe.turn),
                              !.done = TRUE]
    /\ UNCHANGED << ants, food, pher, idx, tick, takes, gone, faded, last,
                    pickups, config, pc >>

NextSteer == SteerProbe

SpecSteer == InitSteer /\ [][NextSteer]_vars

(* ================================ claims ================================ *)
\* the ant the most recent update was of
LastAnt == ants[last.ant]

\* distance in degrees between two headings, 0..180
AngDist(a, b) ==
    LET d == (a - b) % 360
    IN  IF d > 180 THEN 360 - d ELSE d

\* C1 (as claimed): when a tick is over, every ant's heading is in [0, 360).
C1_HeadingNormalized ==
    idx = 1 => \A i \in 1..Len(ants) : 0 <= ants[i].dir /\ ants[i].dir < 360

\* C2: after every move, every ant's position is within the arena:
\* 0 <= x <= SCREEN_WIDTH and 0 <= y <= SCREEN_HEIGHT.
C2_InArena ==
    \A i \in 1..Len(ants) :
        /\ 0 <= ants[i].x /\ ants[i].x <= SCREEN_WIDTH * Scale
        /\ 0 <= ants[i].y /\ ants[i].y <= SCREEN_HEIGHT * Scale

\* an ant has just bounced on both axes (a corner) and is within the arena
C2_Witness ==
    /\ last.ant # 0 /\ last.bx /\ last.by
    /\ OutX(last.mx) /\ OutY(last.my)
    /\ C2_InArena

\* C5 (as claimed): in the update in which a returning worker overlaps the
\* nest it becomes SEEKING_FOOD, and the heading it then moves with is the
\* heading it had before, turned by exactly 180 degrees (mod 360).
C5_TurnAround ==
    (last.ant # 0 /\ last.nest) =>
        /\ LastAnt.state = STATE_SEEKING_FOOD
        /\ last.mdir % 360 = (last.dir0 + 180) % 360

C9_BouncePerAxis ==
    LET ox == last.mx <= 0 \/ last.mx >= SCREEN_WIDTH * Scale
        oy == last.my <= 0 \/ last.my >= SCREEN_HEIGHT * Scale
    IN  (last.ant # 0 /\ (ox \/ oy)) =>
            /\ LastAnt.x = (IF ox THEN last.x0 ELSE last.mx)
            /\ LastAnt.y = (IF oy THEN last.y0 ELSE last.my)
            /\ LastAnt.dir = (IF ox /\ oy THEN 0 - (180 - last.mdir)
                              ELSE IF ox THEN 180 - last.mdir
                              ELSE 0 - last.mdir)

\* an ant that bounced on x alone and kept its moved y
C9_Witness ==
    /\ last.ant # 0 /\ last.bx /\ ~last.by
    /\ LastAnt.x = last.x0 /\ LastAnt.y = last.my /\ last.my # last.y0
    /\ LastAnt.dir = 180 - last.mdir

\* C10: steer from a heading in [0, 360) gives a heading in [0, 360) at
\* most maxTurn from the old one, on the shorter arc from the old heading
\* to the target (so towards the target and not past it), and the old
\* heading itself when the target is the old heading.
C10_Steer ==
    probe.done =>
        /\ 0 <= probe.out /\ probe.out < 360
        /\ AngDist(probe.out, probe.cur) <= probe.turn
        /\ AngDist(probe.cur, probe.out) + AngDist(probe.out, probe.target)
             = AngDist(probe.cur, probe.target)
        /\ (AngDist(probe.cur, probe.target) # 0 => probe.out # probe.cur)
        /\ (probe.target = probe.cur => probe.out = probe.cur)

\* a turn across 0/360 that does not reach the target
C10_Witness ==
    /\ probe.done /\ probe.cur = 358 /\ probe.target = 30 /\ probe.turn = 5
    /\ probe.out = 3

\* C3: a pile is in the food group exactly while fewer than
\* FOOD_AMOUNT_PER_PILE chunks have been taken from it, it holds what is
\* left (at least 1, never below 0), and no chunk is taken from a pile
\* after its FOOD_AMOUNT_PER_PILE-th.
C3_FoodLifecycle ==
    /\ \A id \in DOMAIN takes :
          /\ takes[id] <= FOOD_AMOUNT_PER_PILE
          /\ (\E k \in 1..Len(food) : food[k].id = id) <=> takes[id] < FOOD_AMOUNT_PER_PILE
          /\ (gone[id] >= 0) <=> takes[id] = FOOD_AMOUNT_PER_PILE
    /\ \A k \in 1..Len(food) :
          /\ food[k].amount >= 1
          /\ food[k].amount = FOOD_AMOUNT_PER_PILE - takes[food[k].id]

\* the 80th chunk of the pile on the nest has been taken in this tick, and
\* a later worker of the same tick, seeking and standing on the pile's
\* place, took nothing
C3_Witness ==
    /\ takes[1] = FOOD_AMOUNT_PER_PILE /\ food = << >> /\ gone[1] = tick
    /\ last.ant # 0 /\ last.state0 = STATE_SEEKING_FOOD /\ last.took = 0
    /\ CollideRect(AntRect(last.x0, last.y0), FoodRect(Pile(1, 400, 300, 0)))

\* C4: a marker in the field has strength PHEROMONE_STRENGTH less the
\* decays it has undergone and at least 1, so a new one has
\* PHEROMONE_STRENGTH; a marker is killed at its PHEROMONE_STRENGTH-th decay
\* and at no other; the marker a seeking worker takes as target has
\* strength at least 1.
C4_PheromoneLifecycle ==
    /\ \A k \in 1..Len(pher) :
          /\ pher[k].strength >= 1
          /\ pher[k].strength = PHEROMONE_STRENGTH - pher[k].age
    /\ faded \subseteq {PHEROMONE_STRENGTH}
    /\ (last.tsrc = "pheromone" => last.tstr >= 1)

\* markers have lived their PHEROMONE_STRENGTH ticks and are gone, younger
\* ones are in the field and a seeking worker has just smelled one
C4_Witness ==
    /\ PHEROMONE_STRENGTH \in faded
    /\ pher # << >>
    /\ last.tsrc = "pheromone" /\ last.tstr >= 1

\* C6: a lone seeking worker that starts 40 pixels from the only pile has,
\* after at most ReachBound ticks, taken a chunk and is returning; until it
\* is back at the nest it is RETURNING_TO_NEST exactly when take_chunk has
\* been called once, and take_chunk is not called twice.
C6_ReachesFood ==
    /\ takes[1] = (IF ants[1].state = STATE_RETURNING_TO_NEST THEN 1 ELSE 0)
    /\ (tick >= ReachBound => ants[1].state = STATE_RETURNING_TO_NEST)

\* a worker that had to turn round first picks up its chunk
C6_Witness ==
    /\ last.took = 1 /\ takes[1] = 1 /\ tick > 40
    /\ ants[1].state = STATE_RETURNING_TO_NEST

\* C7 (as claimed): two consecutive deposits of a worker that stayed in
\* RETURNING_TO_NEST are PHEROMONE_DROP_RATE updates (ticks) apart.
C7_DropPeriod ==
    (last.dep /\ last.gap > 0) => last.gap = PHEROMONE_DROP_RATE

\* C11: ants are updated in the order of ant_group, and what one update
\* does to the pheromone and food groups is there for the later updates of
\* the same tick.  For the update of a seeking worker i in tick T: a marker
\* deposited in T by an ant before i and within smelling distance of i is
\* in the field at full strength and i has a marker as its target; the
\* marker i has as target was deposited before T or in T by an ant before
\* i, and has lost one strength per tick since; a pile killed before this
\* update is neither i's target nor taken from by i.
C11_SameTickVisibility ==
    (idx > 1 /\ last.role = "worker" /\ last.state0 = STATE_SEEKING_FOOD) =>
        /\ last.ant = idx - 1
        /\ \A k \in 1..Len(pher) :
              ( /\ pher[k].born = tick /\ pher[k].by < last.ant
                /\ Within(pher[k].cx, pher[k].cy, last.x0, last.y0, SMELL_RADIUS) )
              => (pher[k].strength = PHEROMONE_STRENGTH /\ last.tsrc = "pheromone")
        /\ (last.tsrc = "pheromone" =>
              /\ (last.tborn < tick \/ last.tby < last.ant)
              /\ last.tstr = PHEROMONE_STRENGTH - (tick - last.tborn))
        /\ ((last.tsrc = "food" /\ gone[last.tpile] >= 0) =>
              (last.emptied /\ last.took = last.tpile))
        /\ ((last.took # 0 /\ gone[last.took] >= 0) => last.emptied)

\* the fourth worker of the tick smells, at full strength, the marker the
\* second has just deposited, and takes nothing from the place of the pile
\* the third has just emptied
C11_Witness ==
    /\ idx > 1 /\ last.ant = 4 /\ last.state0 = STATE_SEEKING_FOOD
    /\ last.tsrc = "pheromone" /\ last.tborn = tick /\ last.tby = 2
    /\ last.tstr = PHEROMONE_STRENGTH
    /\ gone[1] = tick /\ last.took = 0
    /\ CollideRect(AntRect(last.x0, last.y0), FoodRect(Pile(1, 200, 300, 0)))

\* C12: the markers fade once per tick, after the last ant update of the
\* tick and at no other time: in every state, also between two ant updates,
\* a marker in the field has lost exactly one strength for every tick
\* completed since the tick it was deposited in (that tick included).
C12_DecayOncePerTick ==
    \A k \in 1..Len(pher) :
        pher[k].strength = PHEROMONE_STRENGTH - (tick - pher[k].born)

\* two ticks are over: a marker deposited in the first has faded twice,
\* like the marker that was in the field before
C12_Witness ==
    /\ idx = 1 /\ tick = 2
    /\ \E k \in 1..Len(pher) :
          pher[k].born = 0 /\ pher[k].strength = PHEROMONE_STRENGTH - 2
    /\ \E k \in 1..Len(pher) :
          pher[k].born < 0 /\ pher[k].strength = PHEROMONE_STRENGTH - 2 + pher[k].born

\* a configuration the claim calls valid
ValidConfig(c) ==
    /\ 0 <= c.WORKER_RATIO /\ c.WORKER_RATIO <= 100
    /\ c.TOTAL_ANTS >= 0 /\ c.FOOD_PILES >= 0 /\ c.FOOD_AMOUNT_PER_PILE >= 0

\* C13 (as claimed): a run whose configuration has a worker ratio outside
\* [0, 1] or a negative ant count, pile count or amount per pile never takes
\* a step of the simulation.
C13_RejectsInvalidConfig ==
    (pc = "loop" /\ (idx > 1 \/ tick > 0)) => ValidConfig(config)

\* C14: the target of a seeking worker's update.  If some marker is less
\* than 50 pixels away, the target is the place of the first such marker in
\* the field's order, whatever piles are near; otherwise, if the nearest
\* pile is less than 100 pixels away, the target is that pile's place;
\* otherwise there is no target and the heading the worker moves with is
\* its heading changed by at most the turn speed (the wander).
C14_TargetSelection ==
    [][ ( /\ idx <= Len(ants) /\ idx' = idx + 1
          /\ ants[idx].role = "worker"
          /\ ants[idx].state = STATE_SEEKING_FOOD ) =>
        LET a    == ants[idx]
            near == {k \in 1..Len(pher) :
                        Within(pher[k].cx, pher[k].cy, a.x, a.y, SMELL_RADIUS)}
            seen == {k \in 1..Len(food) :
                        Within(food[k].cx, food[k].cy, a.x, a.y, SIGHT_RADIUS)}
        IN  IF near # {}
            THEN /\ last'.tsrc = "pheromone"
                 /\ \E k \in near :
                       /\ \A j \in near : k <= j
                       /\ last'.tx = pher[k].cx /\ last'.ty = pher[k].cy
            ELSE IF seen # {}
            THEN /\ last'.tsrc = "food"
                 /\ \E k \in seen :
                       /\ \A j \in 1..Len(food) :
                             Dist2(food[k].cx, food[k].cy, a.x, a.y)
                               <= Dist2(food[j].cx, food[j].cy, a.x, a.y)
                       /\ last'.tx = food[k].cx /\ last'.ty = food[k].cy
            ELSE /\ last'.tsrc = "none"
                 /\ Abs(last'.mdir - a.dir) <= ANT_TURN_SPEED ]_vars

\* a seeking worker has taken as target the first marker of the field, 40
\* pixels away, with a later marker nearer to it and a pile in sight
C14_Witness ==
    /\ idx > 1 /\ last.role = "worker" /\ last.state0 = STATE_SEEKING_FOOD
    /\ last.tsrc = "pheromone" /\ last.tx = pher[1].cx /\ last.ty = pher[1].cy
    /\ \E k \in 2..Len(pher) :
          Dist2(pher[k].cx, pher[k].cy, last.x0, last.y0)
            < Dist2(pher[1].cx, pher[1].cy, last.x0, last.y0)
    /\ \E k \in 1..Len(food) :
          Within(food[k].cx, food[k].cy, last.x0, last.y0, SIGHT_RADIUS)

\* C15: a seeking worker senses before it checks the food collision.  In
\* the update in which it picks up food it becomes RETURNING_TO_NEST, the
\* heading it moves with comes from the marker or pile sensed before the
\* pickup (or from the wander if none was) and not from the nest, and it
\* deposits nothing and its cooldown is untouched; the nest is the target,
\* and a deposit happens, only in updates begun in RETURNING_TO_NEST.
C15_SenseThenCollide ==
    (idx > 1 /\ last.role = "worker") =>
        /\ (last.took # 0 =>
              /\ last.state0 = STATE_SEEKING_FOOD
              /\ LastAnt.state = STATE_RETURNING_TO_NEST
              /\ ~last.dep /\ LastAnt.cd = last.cd0
              /\ \A k \in 1..Len(pher) :
                    ~(pher[k].by = last.ant /\ pher[k].born = tick))
        /\ (last.state0 = STATE_SEEKING_FOOD =>
              /\ last.tsrc \in {"pheromone", "food", "none"}
              /\ (last.tsrc = "none" => Abs(last.mdir - last.dir0) <= ANT_TURN_SPEED)
              /\ (last.tsrc # "none" =>
                    last.mdir = Steer(last.dir0,
                                      AngleTo([x |-> Px(last.x0), y |-> Px(last.y0)],
                                              [x |-> last.tx, y |-> last.ty]),
                                      ANT_TURN_SPEED)))
        /\ (last.tsrc = "nest" <=> last.state0 = STATE_RETURNING_TO_NEST)
        /\ (last.tsrc = "nest" => (last.tx = NestCenter.x /\ last.ty = NestCenter.y))
        /\ (last.dep => last.state0 = STATE_RETURNING_TO_NEST)

\* a worker has picked up food in an update in which it steered by a
\* marker away from the nest, and has not deposited
C15_Witness ==
    /\ idx > 1 /\ last.took # 0 /\ last.state0 = STATE_SEEKING_FOOD
    /\ last.tsrc = "pheromone"
    /\ (last.tx # NestCenter.x \/ last.ty # NestCenter.y)
    /\ last.tang # AngleTo([x |-> Px(last.x0), y |-> Px(last.y0)], NestCenter)
    /\ LastAnt.state = STATE_RETURNING_TO_NEST /\ ~last.dep

\* C16: the update of a soldier changes nothing but that soldier's place
\* and heading: the food group, the pheromone group and every other ant
\* stay as they are; a soldier's state is WANDERING before and after every
\* step; no step changes the role of an ant or the number of ants.
C16_SoldierFrame ==
    [][ /\ Len(ants') = Len(ants)
        /\ \A i \in 1..Len(ants) :
              /\ ants'[i].role = ants[i].role
              /\ (ants[i].role = "soldier" =>
                    /\ ants[i].state = STATE_WANDERING
                    /\ ants'[i].state = STATE_WANDERING)
        /\ ( (idx <= Len(ants) /\ idx' = idx + 1 /\ ants[idx].role = "soldier") =>
              /\ food' = food
              /\ pher' = pher
              /\ \A j \in 1..Len(ants) : j # idx => ants'[j] = ants[j]
              /\ ants'[idx] = [ants[idx] EXCEPT !.x = ants'[idx].x,
                                                !.y = ants'[idx].y,
                                                !.dir = ants'[idx].dir] ) ]_vars

\* a soldier has moved, with a pile and a marker in the field and a
\* returning worker next to it
C16_Witness ==
    /\ idx > 1 /\ last.role = "soldier"
    /\ LastAnt.role = "soldier" /\ LastAnt.state = STATE_WANDERING
    /\ (LastAnt.x # last.x0 \/ LastAnt.y # last.y0)
    /\ food # << >> /\ pher # << >>
    /\ \E j \in 1..Len(ants) : ants[j].state = STATE_RETURNING_TO_NEST

RECURSIVE SumOf(_)
\* the sum of a sequence of numbers
SumOf(q) == IF q = << >> THEN 0 ELSE Head(q) + SumOf(Tail(q))

\* C17: food is conserved.  A worker goes from SEEKING_FOOD to
\* RETURNING_TO_NEST exactly in the updates in which one chunk is taken from
\* one pile; what is left in the piles plus the number of those transitions
\* is FOOD_AMOUNT_PER_PILE for every pile created, the transitions number
\* the chunks taken, no pile holds more than it was created with, and a
\* seeking worker that takes nothing (the pile was emptied before its
\* update) stays SEEKING_FOOD.
C17_FoodConservation ==
    /\ TotalAmount(food) + pickups = Len(takes) * FOOD_AMOUNT_PER_PILE
    /\ pickups = SumOf(takes)
    /\ \A k \in 1..Len(food) :
          /\ food[k].amount <= FOOD_AMOUNT_PER_PILE
          /\ \A j \in 1..Len(food) : food[j].id = food[k].id => j = k
    /\ ((idx > 1 /\ last.role = "worker") =>
          /\ (last.took # 0 <=>
                (last.state0 = STATE_SEEKING_FOOD
                   /\ LastAnt.state = STATE_RETURNING_TO_NEST))
          /\ ((last.state0 = STATE_SEEKING_FOOD /\ last.took = 0) =>
                LastAnt.state = STATE_SEEKING_FOOD))

\* the first worker, on both piles, has taken the last chunk of the first
\* pile and none of the second; the second worker, on the place of the
\* first pile, has taken nothing and stays SEEKING_FOOD
C17_Witness ==
    /\ idx > 1 /\ last.ant = 2 /\ last.state0 = STATE_SEEKING_FOOD
    /\ gone[1] = tick /\ takes[1] = FOOD_AMOUNT_PER_PILE /\ takes[2] = 0
    /\ Len(food) = 1 /\ food[1].id = 2 /\ food[1].amount = FOOD_AMOUNT_PER_PILE
    /\ CollideRect(AntRect(last.x0, last.y0), FoodRect(Pile(1, 300, 400, 0)))
    /\ last.took = 0 /\ LastAnt.state = STATE_SEEKING_FOOD
    /\ ants[1].state = STATE_RETURNING_TO_NEST
    /\ pickups = FOOD_AMOUNT_PER_PILE

\* whether the 5x5 box around sub-pixel position (x, y) and the rectangle
\* o share a pixel
BoxMeets(x, y, o) ==
    /\ x \div Scale - 2 < o.l + o.w /\ o.l < x \div Scale + 3
    /\ y \div Scale - 2 < o.t + o.h /\ o.t < y \div Scale + 3

\* C18: from ants whose boxes overlap no obstacle, no ant's box overlaps
\* an obstacle after any update of any tick (so at the end of every tick),
\* whether or not the move bounced off a wall on one axis.
C18_NoObstacleOverlap ==
    \A i \in 1..Len(ants) :
        \A k \in 1..Len(Obstacles) : ~BoxMeets(ants[i].x, ants[i].y, Obstacles[k])

\* an ant's move has taken its box into an obstacle, and after the update
\* no ant's box overlaps one
C18_Witness ==
    /\ idx > 1 /\ last.hit
    /\ \E k \in 1..Len(Obstacles) : BoxMeets(last.mx, last.my, Obstacles[k])
    /\ \A k \in 1..Len(Obstacles) : ~BoxMeets(last.x0, last.y0, Obstacles[k])
    /\ C18_NoObstacleOverlap

\* C19: a worker's cooldown is a whole number from 0 to
\* PHEROMONE_DROP_RATE.  An update begun in SEEKING_FOOD leaves it as it is
\* and deposits nothing; an update begun in RETURNING_TO_NEST deposits
\* exactly when it is 0, setting it to PHEROMONE_DROP_RATE, and otherwise
\* takes 1 from it: a cooldown left from an earlier trip delays the first
\* deposit of the next.
C19_Cooldown ==
    /\ \A i \in 1..Len(ants) :
          ants[i].role = "worker" =>
              ants[i].cd \in 0..PHEROMONE_DROP_RATE
    /\ ((idx > 1 /\ last.role = "worker") =>
          /\ (last.state0 = STATE_SEEKING_FOOD =>
                (LastAnt.cd = last.cd0 /\ ~last.dep))
          /\ (last.state0 = STATE_RETURNING_TO_NEST =>
                /\ (last.dep <=> last.cd0 = 0)
                /\ LastAnt.cd = (IF last.cd0 = 0 THEN PHEROMONE_DROP_RATE
                                 ELSE last.cd0 - 1)))

\* the worker that picked up food in the first tick with a cooldown of 4
\* left over makes its first update on the way home: no deposit, cooldown 3
C19_Witness ==
    /\ tick = 1 /\ idx > 1 /\ last.role = "worker"
    /\ last.state0 = STATE_RETURNING_TO_NEST
    /\ gone[1] = 0 /\ takes[1] = FOOD_AMOUNT_PER_PILE
    /\ last.cd0 = 4 /\ ~last.dep /\ LastAnt.cd = 3
    /\ \A k \in 1..Len(pher) : pher[k].by # last.ant

\* the most markers of one worker that can be in the field:
\* ceil(PHEROMONE_STRENGTH / (PHEROMONE_DROP_RATE + 1))
MarkersPerWorker ==
    (PHEROMONE_STRENGTH + PHEROMONE_DROP_RATE) \div (PHEROMONE_DROP_RATE + 1)

====
